---- MODULE Spec2Model ----
(***************************************************************************)
(* The ON CONFLICT clause builders of src/query-builder/on-conflict-       *)
(* builder.ts: OnConflictBuilder (conflict target and index predicate),    *)
(* OnConflictDoNothingBuilder and OnConflictUpdateBuilder.                 *)
(*                                                                         *)
(* A state is the set of builder objects the caller holds.  A builder is   *)
(* named by its lineage: the sequence of calls that produced it from the   *)
(* builder the insert statement handed out (the empty sequence).  Each     *)
(* action is one method call on one of the builders held.                  *)
(***************************************************************************)
EXTENDS Integers, Sequences, FiniteSets, TLC

VARIABLES builders, extracted, thrown

vars == <<builders, extracted, thrown>>

\* Number of distinct calls a run makes on the builders it holds.
MaxCalls == 3

(***************************************************************************)
(* Inputs of the calls.  Every argument list is a sequence of strings.     *)
(***************************************************************************)
ParseContexts == {"ctx1", "ctx2"}

TargetTable == "people"

\* The database type DB the insert statement is built over: the columns of
\* each table.
Database ==
    [t \in {"people", "pet"} |->
       IF t = "people"
       THEN {"id", "email", "name", "active", "verified"}
       ELSE {"id", "owner_id"}]

\* The alias that doUpdateSet adds to the table type: Record<'excluded', DB[TB]>.
ExcludedAlias == "excluded"

ColumnArgs == {"email", "id"}

ColumnsArgs == {<< >>, <<"id", "email">>}

ConstraintArgs == {"people_pkey", "people_email_key"}

ExpressionArgs == {"lower(email)"}

\* where / orWhere: (lhs, op, rhs) with rhs a value.
WhereArgs ==
    {<<"email", "=", "a@x.com">>, <<"people.active", "=", "true">>,
     <<"excluded.email", "=", "a@x.com">>, <<"email", "?", "a@x.com">>}

\* whereRef / orWhereRef: (lhs, op, rhs) with rhs a reference.
RefArgs ==
    {<<"people.active", "=", "people.verified">>,
     <<"people.active", "=", "excluded.active">>,
     <<"people.active", "=", "?">>}

\* whereExists and its three siblings: one sub-query.
ExistsArgs == {<<"select from pet">>, <<"select from excluded">>, <<"?">>}

\* doUpdateSet: a column, value-expression mapping, flattened.
UpdateArgs == {<<"name", "n">>, <<"name", "excluded.name">>, <<"?", "n">>}

\* The strings no parser makes sense of.
Malformed == {"?"}

\* The strings above that refer to the proposed row.
ExcludedRefs ==
    {"excluded.email", "excluded.active", "excluded.name", "select from excluded"}

\* The tables an argument list refers to.
TablesOf(args) ==
    {IF args[i] \in ExcludedRefs THEN ExcludedAlias ELSE TargetTable : i \in DOMAIN args}

(***************************************************************************)
(* Operation nodes and parsers (collaborators of the builders).            *)
(***************************************************************************)
Absent == [kind |-> "absent"]

ColumnNode_create(column) == [kind |-> "ColumnNode", column |-> column]

IdentifierNode_create(name) == [kind |-> "IdentifierNode", name |-> name]

RawBuilder_toOperationNode(expression) == [kind |-> "RawNode", sql |-> expression]

\* What a parser throws at arguments it makes no sense of.
ParseError(parser, args) == [kind |-> "Error", by |-> parser, args |-> args]

IsError(value) == value.kind = "Error"

IsMalformed(args) == \E i \in DOMAIN args : args[i] \in Malformed

parseWhereFilter(parseContext, args) ==
    IF IsMalformed(args)
    THEN ParseError("parseWhereFilter", args)
    ELSE [kind |-> "FilterNode", ctx |-> parseContext, args |-> args]

parseReferenceFilter(parseContext, lhs, op, rhs) ==
    IF IsMalformed(<<lhs, op, rhs>>)
    THEN ParseError("parseReferenceFilter", <<lhs, op, rhs>>)
    ELSE [kind |-> "ReferenceFilterNode", ctx |-> parseContext, args |-> <<lhs, op, rhs>>]

parseExistFilter(parseContext, arg) ==
    IF IsMalformed(<<arg>>)
    THEN ParseError("parseExistFilter", <<arg>>)
    ELSE [kind |-> "ExistsNode", ctx |-> parseContext, args |-> <<arg>>]

parseNotExistFilter(parseContext, arg) ==
    IF IsMalformed(<<arg>>)
    THEN ParseError("parseNotExistFilter", <<arg>>)
    ELSE [kind |-> "NotExistsNode", ctx |-> parseContext, args |-> <<arg>>]

parseUpdateObject(parseContext, updates) ==
    IF IsMalformed(updates)
    THEN ParseError("parseUpdateObject", updates)
    ELSE [kind |-> "ColumnUpdates", ctx |-> parseContext, args |-> updates]

\* The empty descriptor the insert statement starts conflict handling with.
OnConflictNode_create ==
    [kind |-> "OnConflictNode",
     columns |-> [present |-> FALSE, items |-> << >>],
     constraint |-> Absent,
     indexExpression |-> Absent,
     indexWhere |-> Absent,
     doNothing |-> FALSE,
     updates |-> Absent,
     updateWhere |-> Absent]

\* A copy of node with the fields of props replaced.
OnConflictNode_cloneWith(node, props) ==
    [f \in DOMAIN node |-> IF f \in DOMAIN props THEN props[f] ELSE node[f]]

\* Joining onto an absent predicate yields the fragment itself.
JoinFilter(existing, connective, filter) ==
    IF existing = Absent
    THEN filter
    ELSE [kind |-> connective, left |-> existing, right |-> filter]

OnConflictNode_cloneWithIndexWhere(node, filter) ==
    [node EXCEPT !.indexWhere = JoinFilter(@, "And", filter)]

OnConflictNode_cloneWithIndexOrWhere(node, filter) ==
    [node EXCEPT !.indexWhere = JoinFilter(@, "Or", filter)]

OnConflictNode_cloneWithUpdateWhere(node, filter) ==
    [node EXCEPT !.updateWhere = JoinFilter(@, "And", filter)]

OnConflictNode_cloneWithUpdateOrWhere(node, filter) ==
    [node EXCEPT !.updateWhere = JoinFilter(@, "Or", filter)]

\* Object.freeze: the object itself, marked read-only.
freeze(props) == [props EXCEPT !.frozen = TRUE]

\* The spread as it would be if each call started a parse context of its own.
SpreadWith_new_context(props, onConflictNode) ==
    [onConflictNode |-> onConflictNode,
     parseContext |-> CHOOSE c \in ParseContexts : c # props.parseContext,
     frozen |-> FALSE]

\* { ...props, onConflictNode }: a fresh, not yet frozen, props object.
SpreadWith(props, onConflictNode) ==
    [onConflictNode |-> onConflictNode,
     parseContext |-> props.parseContext,
     frozen |-> FALSE]

(***************************************************************************)
(* The three builder classes.  A builder is [kind, props, DB, TB]: its     *)
(* class, its private #props, and its type parameters DB (the columns of   *)
(* each table name) and TB (the names its arguments may address).          *)
(***************************************************************************)
OnConflictBuilder(props, DB, TB) ==
    [kind |-> "OnConflictBuilder", props |-> freeze(props), DB |-> DB, TB |-> TB]

OnConflictDoNothingBuilder(props, DB, TB) ==
    [kind |-> "OnConflictDoNothingBuilder", props |-> freeze(props), DB |-> DB, TB |-> TB]

OnConflictUpdateBuilder(props, DB, TB) ==
    [kind |-> "OnConflictUpdateBuilder", props |-> freeze(props), DB |-> DB, TB |-> TB]

TargetMethods == {"column", "columns", "constraint", "expression"}

AndMethods == {"where", "whereRef", "whereExists", "whereNotExists"}

OrMethods == {"orWhere", "orWhereRef", "orWhereExists", "orWhereNotExists"}

PredicateMethods == AndMethods \cup OrMethods

TerminalMethods == {"doNothing", "doUpdateSet"}

ChainMethods == TargetMethods \cup PredicateMethods \cup TerminalMethods

AllMethods == ChainMethods \cup {"toOperationNode"}

\* The methods each class declares.
Methods(kind) ==
    CASE kind = "OnConflictBuilder" -> TargetMethods \cup PredicateMethods \cup TerminalMethods
      [] kind = "OnConflictDoNothingBuilder" -> {"toOperationNode"}
      [] kind = "OnConflictUpdateBuilder" -> PredicateMethods \cup {"toOperationNode"}

\* The parameter types as they would be if doUpdateSet took its mapping over
\* the extended tables.
ArgumentTables_extended(this, method) ==
    IF method = "doUpdateSet" THEN this.TB \cup {ExcludedAlias} ELSE this.TB

\* The table names the arguments of this.method are typed against.
ArgumentTables(this, method) == this.TB

\* UpdateTables as it would be if doUpdateSet returned a builder over TB.
UpdateTables_unextended(TB) == TB

\* The table type of the builder doUpdateSet returns: TB | 'excluded'.
UpdateTables(TB) == TB \cup {ExcludedAlias}

\* DB[TB]: the columns a row of any of the tables TB has.
Row(DB, TB) == {c \in UNION {DB[t] : t \in TB} : \A t \in TB : c \in DB[t]}

\* The database type of that builder: DB & Record<'excluded', DB[TB]>.
UpdateDB(DB, TB) ==
    [t \in DOMAIN DB \cup {ExcludedAlias} |->
       IF t # ExcludedAlias
       THEN DB[t]
       ELSE IF t \in DOMAIN DB THEN DB[t] \cup Row(DB, TB) ELSE Row(DB, TB)]

(***************************************************************************)
(* OnConflictBuilder                                                       *)
(***************************************************************************)
\* column as it would be if it skipped a name the list already holds.
OnConflictBuilder_column_dedup(this, column) ==
    LET columnNode == ColumnNode_create(column)
        node == this.props.onConflictNode
    IN OnConflictBuilder(
         SpreadWith(this.props,
           OnConflictNode_cloneWith(node,
             [columns |->
                [present |-> TRUE,
                 items |-> IF \E i \in 1..Len(node.columns.items) :
                                node.columns.items[i] = columnNode
                           THEN node.columns.items
                           ELSE Append(node.columns.items, columnNode)]])),
         this.DB, this.TB)

OnConflictBuilder_column(this, column) ==
    LET columnNode == ColumnNode_create(column)
        node == this.props.onConflictNode
    IN OnConflictBuilder(
         SpreadWith(this.props,
           OnConflictNode_cloneWith(node,
             [columns |->
                [present |-> TRUE,
                 items |-> IF node.columns.present
                           THEN Append(node.columns.items, columnNode)
                           ELSE <<columnNode>>]])),
         this.DB, this.TB)

OnConflictBuilder_columns(this, columns) ==
    LET columnNodes == [i \in 1..Len(columns) |-> ColumnNode_create(columns[i])]
        node == this.props.onConflictNode
    IN OnConflictBuilder(
         SpreadWith(this.props,
           OnConflictNode_cloneWith(node,
             [columns |->
                [present |-> TRUE,
                 items |-> IF node.columns.present
                           THEN node.columns.items \o columnNodes
                           ELSE columnNodes]])),
         this.DB, this.TB)

\* constraint as it would be if the target were one slot, replaced on each call.
OnConflictBuilder_constraint_single_slot(this, constraintName) ==
    OnConflictBuilder(
      SpreadWith(this.props,
        OnConflictNode_cloneWith(this.props.onConflictNode,
          [constraint |-> IdentifierNode_create(constraintName),
           columns |-> [present |-> FALSE, items |-> << >>],
           indexExpression |-> Absent])),
      this.DB, this.TB)

OnConflictBuilder_constraint(this, constraintName) ==
    OnConflictBuilder(
      SpreadWith(this.props,
        OnConflictNode_cloneWith(this.props.onConflictNode,
          [constraint |-> IdentifierNode_create(constraintName)])),
      this.DB, this.TB)

OnConflictBuilder_expression(this, expression) ==
    OnConflictBuilder(
      SpreadWith(this.props,
        OnConflictNode_cloneWith(this.props.onConflictNode,
          [indexExpression |-> RawBuilder_toOperationNode(expression)])),
      this.DB, this.TB)

\* where as it would be if it always built a conjunction.
OnConflictBuilder_where_wrap(this, args) ==
    OnConflictBuilder(
      SpreadWith(this.props,
        [this.props.onConflictNode EXCEPT
           !.indexWhere = [kind |-> "And", left |-> @,
                           right |-> parseWhereFilter(this.props.parseContext, args)]]),
      this.DB, this.TB)

OnConflictBuilder_where(this, args) ==
    OnConflictBuilder(
      SpreadWith(this.props,
        OnConflictNode_cloneWithIndexWhere(this.props.onConflictNode,
          parseWhereFilter(this.props.parseContext, args))),
      this.DB, this.TB)

OnConflictBuilder_whereRef(this, args) ==
    OnConflictBuilder(
      SpreadWith(this.props,
        OnConflictNode_cloneWithIndexWhere(this.props.onConflictNode,
          parseReferenceFilter(this.props.parseContext, args[1], args[2], args[3]))),
      this.DB, this.TB)

\* orWhere as it would be if it joined with cloneWithIndexWhere.
OnConflictBuilder_orWhere_and(this, args) ==
    OnConflictBuilder(
      SpreadWith(this.props,
        OnConflictNode_cloneWithIndexWhere(this.props.onConflictNode,
          parseWhereFilter(this.props.parseContext, args))),
      this.DB, this.TB)

OnConflictBuilder_orWhere(this, args) ==
    OnConflictBuilder(
      SpreadWith(this.props,
        OnConflictNode_cloneWithIndexOrWhere(this.props.onConflictNode,
          parseWhereFilter(this.props.parseContext, args))),
      this.DB, this.TB)

OnConflictBuilder_orWhereRef(this, args) ==
    OnConflictBuilder(
      SpreadWith(this.props,
        OnConflictNode_cloneWithIndexOrWhere(this.props.onConflictNode,
          parseReferenceFilter(this.props.parseContext, args[1], args[2], args[3]))),
      this.DB, this.TB)

OnConflictBuilder_whereExists(this, args) ==
    OnConflictBuilder(
      SpreadWith(this.props,
        OnConflictNode_cloneWithIndexWhere(this.props.onConflictNode,
          parseExistFilter(this.props.parseContext, args[1]))),
      this.DB, this.TB)

OnConflictBuilder_whereNotExists(this, args) ==
    OnConflictBuilder(
      SpreadWith(this.props,
        OnConflictNode_cloneWithIndexWhere(this.props.onConflictNode,
          parseNotExistFilter(this.props.parseContext, args[1]))),
      this.DB, this.TB)

OnConflictBuilder_orWhereExists(this, args) ==
    OnConflictBuilder(
      SpreadWith(this.props,
        OnConflictNode_cloneWithIndexOrWhere(this.props.onConflictNode,
          parseExistFilter(this.props.parseContext, args[1]))),
      this.DB, this.TB)

OnConflictBuilder_orWhereNotExists(this, args) ==
    OnConflictBuilder(
      SpreadWith(this.props,
        OnConflictNode_cloneWithIndexOrWhere(this.props.onConflictNode,
          parseNotExistFilter(this.props.parseContext, args[1]))),
      this.DB, this.TB)

\* doNothing as it would be if it returned another OnConflictBuilder.
OnConflictBuilder_doNothing_same_class(this) ==
    OnConflictBuilder(
      SpreadWith(this.props,
        OnConflictNode_cloneWith(this.props.onConflictNode, [doNothing |-> TRUE])),
      this.DB, this.TB)

\* doNothing as it would be if it started from an empty descriptor.
OnConflictBuilder_doNothing_fresh(this) ==
    OnConflictDoNothingBuilder(
      SpreadWith(this.props,
        OnConflictNode_cloneWith(OnConflictNode_create, [doNothing |-> TRUE])),
      this.DB, this.TB)

OnConflictBuilder_doNothing(this) ==
    OnConflictDoNothingBuilder(
      SpreadWith(this.props,
        OnConflictNode_cloneWith(this.props.onConflictNode, [doNothing |-> TRUE])),
      this.DB, this.TB)

\* doUpdateSet as it would be if it returned another OnConflictBuilder.
OnConflictBuilder_doUpdateSet_target_class(this, updates) ==
    OnConflictBuilder(
      SpreadWith(this.props,
        OnConflictNode_cloneWith(this.props.onConflictNode,
          [updates |-> parseUpdateObject(this.props.parseContext, updates)])),
      UpdateDB(this.DB, this.TB), UpdateTables(this.TB))

OnConflictBuilder_doUpdateSet(this, updates) ==
    OnConflictUpdateBuilder(
      SpreadWith(this.props,
        OnConflictNode_cloneWith(this.props.onConflictNode,
          [updates |-> parseUpdateObject(this.props.parseContext, updates)])),
      UpdateDB(this.DB, this.TB), UpdateTables(this.TB))

(***************************************************************************)
(* OnConflictDoNothingBuilder and OnConflictUpdateBuilder                  *)
(***************************************************************************)
OnConflictDoNothingBuilder_toOperationNode(this) == this.props.onConflictNode

OnConflictUpdateBuilder_where(this, args) ==
    OnConflictUpdateBuilder(
      SpreadWith(this.props,
        OnConflictNode_cloneWithUpdateWhere(this.props.onConflictNode,
          parseWhereFilter(this.props.parseContext, args))),
      this.DB, this.TB)

\* whereRef of the update builder as it would be if it joined onto the index predicate.
OnConflictUpdateBuilder_whereRef_index(this, args) ==
    OnConflictUpdateBuilder(
      SpreadWith(this.props,
        OnConflictNode_cloneWithIndexWhere(this.props.onConflictNode,
          parseReferenceFilter(this.props.parseContext, args[1], args[2], args[3]))),
      this.DB, this.TB)

OnConflictUpdateBuilder_whereRef(this, args) ==
    OnConflictUpdateBuilder(
      SpreadWith(this.props,
        OnConflictNode_cloneWithUpdateWhere(this.props.onConflictNode,
          parseReferenceFilter(this.props.parseContext, args[1], args[2], args[3]))),
      this.DB, this.TB)

\* orWhere of the update builder as it would be if it returned an OnConflictBuilder.
OnConflictUpdateBuilder_orWhere_target_class(this, args) ==
    OnConflictBuilder(
      SpreadWith(this.props,
        OnConflictNode_cloneWithUpdateOrWhere(this.props.onConflictNode,
          parseWhereFilter(this.props.parseContext, args))),
      this.DB, this.TB)

OnConflictUpdateBuilder_orWhere(this, args) ==
    OnConflictUpdateBuilder(
      SpreadWith(this.props,
        OnConflictNode_cloneWithUpdateOrWhere(this.props.onConflictNode,
          parseWhereFilter(this.props.parseContext, args))),
      this.DB, this.TB)

OnConflictUpdateBuilder_orWhereRef(this, args) ==
    OnConflictUpdateBuilder(
      SpreadWith(this.props,
        OnConflictNode_cloneWithUpdateOrWhere(this.props.onConflictNode,
          parseReferenceFilter(this.props.parseContext, args[1], args[2], args[3]))),
      this.DB, this.TB)

OnConflictUpdateBuilder_whereExists(this, args) ==
    OnConflictUpdateBuilder(
      SpreadWith(this.props,
        OnConflictNode_cloneWithUpdateWhere(this.props.onConflictNode,
          parseExistFilter(this.props.parseContext, args[1]))),
      this.DB, this.TB)

\* whereNotExists of the update builder as it would be if it parsed its
\* sub-query with parseExistFilter.
OnConflictUpdateBuilder_whereNotExists_exists(this, args) ==
    OnConflictUpdateBuilder(
      SpreadWith(this.props,
        OnConflictNode_cloneWithUpdateWhere(this.props.onConflictNode,
          parseExistFilter(this.props.parseContext, args[1]))),
      this.DB, this.TB)

OnConflictUpdateBuilder_whereNotExists(this, args) ==
    OnConflictUpdateBuilder(
      SpreadWith(this.props,
        OnConflictNode_cloneWithUpdateWhere(this.props.onConflictNode,
          parseNotExistFilter(this.props.parseContext, args[1]))),
      this.DB, this.TB)

OnConflictUpdateBuilder_orWhereExists(this, args) ==
    OnConflictUpdateBuilder(
      SpreadWith(this.props,
        OnConflictNode_cloneWithUpdateOrWhere(this.props.onConflictNode,
          parseExistFilter(this.props.parseContext, args[1]))),
      this.DB, this.TB)

OnConflictUpdateBuilder_orWhereNotExists(this, args) ==
    OnConflictUpdateBuilder(
      SpreadWith(this.props,
        OnConflictNode_cloneWithUpdateOrWhere(this.props.onConflictNode,
          parseNotExistFilter(this.props.parseContext, args[1]))),
      this.DB, this.TB)

OnConflictUpdateBuilder_toOperationNode(this) == this.props.onConflictNode

(***************************************************************************)
(* State.  builders maps each lineage (sequence of calls) to the builder   *)
(* object that call chain returned; extracted holds the descriptors the    *)
(* caller took out with toOperationNode, each with the value it had when   *)
(* it was taken; thrown holds the calls that ended in a TypeError.         *)
(***************************************************************************)
Call(method, args) == [m |-> method, a |-> args]

\* The method body that a call of `method` on `this` runs.
Impl(this, method, args) ==
    IF this.kind = "OnConflictUpdateBuilder"
    THEN CASE method = "where" -> OnConflictUpdateBuilder_where(this, args)
           [] method = "whereRef" -> OnConflictUpdateBuilder_whereRef(this, args)
           [] method = "orWhere" -> OnConflictUpdateBuilder_orWhere(this, args)
           [] method = "orWhereRef" -> OnConflictUpdateBuilder_orWhereRef(this, args)
           [] method = "whereExists" -> OnConflictUpdateBuilder_whereExists(this, args)
           [] method = "whereNotExists" -> OnConflictUpdateBuilder_whereNotExists(this, args)
           [] method = "orWhereExists" -> OnConflictUpdateBuilder_orWhereExists(this, args)
           [] method = "orWhereNotExists" -> OnConflictUpdateBuilder_orWhereNotExists(this, args)
    ELSE CASE method = "column" -> OnConflictBuilder_column(this, args[1])
           [] method = "columns" -> OnConflictBuilder_columns(this, args)
           [] method = "constraint" -> OnConflictBuilder_constraint(this, args[1])
           [] method = "expression" -> OnConflictBuilder_expression(this, args[1])
           [] method = "where" -> OnConflictBuilder_where(this, args)
           [] method = "whereRef" -> OnConflictBuilder_whereRef(this, args)
           [] method = "orWhere" -> OnConflictBuilder_orWhere(this, args)
           [] method = "orWhereRef" -> OnConflictBuilder_orWhereRef(this, args)
           [] method = "whereExists" -> OnConflictBuilder_whereExists(this, args)
           [] method = "whereNotExists" -> OnConflictBuilder_whereNotExists(this, args)
           [] method = "orWhereExists" -> OnConflictBuilder_orWhereExists(this, args)
           [] method = "orWhereNotExists" -> OnConflictBuilder_orWhereNotExists(this, args)
           [] method = "doNothing" -> OnConflictBuilder_doNothing(this)
           [] method = "doUpdateSet" -> OnConflictBuilder_doUpdateSet(this, args)

\* What the parser that a call of `method` on `this` runs returns or throws;
\* Absent for the methods that run no parser.
Parsed(this, method, args) ==
    LET parseContext == this.props.parseContext
    IN CASE method \in {"where", "orWhere"} -> parseWhereFilter(parseContext, args)
         [] method \in {"whereRef", "orWhereRef"} ->
              parseReferenceFilter(parseContext, args[1], args[2], args[3])
         [] method \in {"whereExists", "orWhereExists"} ->
              parseExistFilter(parseContext, args[1])
         [] method \in {"whereNotExists", "orWhereNotExists"} ->
              parseNotExistFilter(parseContext, args[1])
         [] method = "doUpdateSet" -> parseUpdateObject(parseContext, args)
         [] OTHER -> Absent

\* The error of a call of a method the receiver does not have.
TypeError == [kind |-> "Error", by |-> "TypeError", args |-> << >>]

Thrown(b, method, args, error) == [on |-> b, m |-> method, a |-> args, error |-> error]

\* The call type-checks: the class declares the method and the arguments
\* address only tables of the type the parameter is declared with.
Accepts(this, method, args) ==
    /\ method \in Methods(this.kind)
    /\ TablesOf(args) \subseteq ArgumentTables(this, method)

\* The distinct calls made so far.
CallsMade == (Cardinality(DOMAIN builders) - 1) + Cardinality(extracted) + Cardinality(thrown)

\* Invoke as it would be if the method caught the parser's error and returned
\* a builder around the receiver's descriptor.
Invoke_swallow(b, method, args) ==
    LET this == builders[b]
        path == Append(b, Call(method, args))
    IN /\ Accepts(this, method, args)
       /\ path \in DOMAIN builders \/ CallsMade < MaxCalls
       /\ builders' = (path :> IF IsError(Parsed(this, method, args))
                                THEN this
                                ELSE Impl(this, method, args)) @@ builders
       /\ UNCHANGED <<extracted, thrown>>

\* builders[b].method(args): the arguments are parsed first; an error of the
\* parser leaves the method before anything is built, otherwise the method
\* returns a builder, which the caller keeps.
Invoke(b, method, args) ==
    LET this == builders[b]
        path == Append(b, Call(method, args))
        parsed == Parsed(this, method, args)
    IN /\ Accepts(this, method, args)
       /\ IF IsError(parsed)
          THEN /\ Thrown(b, method, args, parsed) \in thrown \/ CallsMade < MaxCalls
               /\ thrown' = thrown \cup {Thrown(b, method, args, parsed)}
               /\ UNCHANGED <<builders, extracted>>
          ELSE /\ path \in DOMAIN builders \/ CallsMade < MaxCalls
               /\ builders' = (path :> Impl(this, method, args)) @@ builders
               /\ UNCHANGED <<extracted, thrown>>

IsTarget(b) == builders[b].kind = "OnConflictBuilder"

IsUpdate(b) == builders[b].kind = "OnConflictUpdateBuilder"

IsDoNothing(b) == builders[b].kind = "OnConflictDoNothingBuilder"

\* column as it would be if it pushed onto the receiver's own column array.
column_push(b, name) ==
    LET this == builders[b]
        path == Append(b, Call("column", <<name>>))
        built == Impl(this, "column", <<name>>)
    IN /\ IsTarget(b)
       /\ Accepts(this, "column", <<name>>)
       /\ path \in DOMAIN builders \/ CallsMade < MaxCalls
       /\ builders' = (path :> built) @@
            [builders EXCEPT ![b].props.onConflictNode.columns =
                                built.props.onConflictNode.columns]
       /\ UNCHANGED <<extracted, thrown>>

column(b, name) == IsTarget(b) /\ Invoke(b, "column", <<name>>)

columns(b, names) == IsTarget(b) /\ Invoke(b, "columns", names)

constraint(b, name) == IsTarget(b) /\ Invoke(b, "constraint", <<name>>)

expression(b, expr) == IsTarget(b) /\ Invoke(b, "expression", <<expr>>)

where(b, args) == IsTarget(b) /\ Invoke(b, "where", args)

whereRef(b, args) == IsTarget(b) /\ Invoke(b, "whereRef", args)

orWhere(b, args) == IsTarget(b) /\ Invoke(b, "orWhere", args)

orWhereRef(b, args) == IsTarget(b) /\ Invoke(b, "orWhereRef", args)

whereExists(b, args) == IsTarget(b) /\ Invoke(b, "whereExists", args)

whereNotExists(b, args) == IsTarget(b) /\ Invoke(b, "whereNotExists", args)

orWhereExists(b, args) == IsTarget(b) /\ Invoke(b, "orWhereExists", args)

orWhereNotExists(b, args) == IsTarget(b) /\ Invoke(b, "orWhereNotExists", args)

\* doNothing as it would be if it set the flag on the descriptor the receiver
\* holds and wrapped that same descriptor.
doNothing_in_place(b) ==
    LET this == builders[b]
        path == Append(b, Call("doNothing", << >>))
    IN /\ IsTarget(b)
       /\ Accepts(this, "doNothing", << >>)
       /\ path \in DOMAIN builders \/ CallsMade < MaxCalls
       /\ builders' = (path :> Impl(this, "doNothing", << >>)) @@
            [builders EXCEPT ![b].props.onConflictNode.doNothing = TRUE]
       /\ UNCHANGED <<extracted, thrown>>

doNothing(b) == IsTarget(b) /\ Invoke(b, "doNothing", << >>)

doUpdateSet(b, updates) == IsTarget(b) /\ Invoke(b, "doUpdateSet", updates)

update_where(b, args) == IsUpdate(b) /\ Invoke(b, "where", args)

update_whereRef(b, args) == IsUpdate(b) /\ Invoke(b, "whereRef", args)

update_orWhere(b, args) == IsUpdate(b) /\ Invoke(b, "orWhere", args)

update_orWhereRef(b, args) == IsUpdate(b) /\ Invoke(b, "orWhereRef", args)

update_whereExists(b, args) == IsUpdate(b) /\ Invoke(b, "whereExists", args)

update_whereNotExists(b, args) == IsUpdate(b) /\ Invoke(b, "whereNotExists", args)

update_orWhereExists(b, args) == IsUpdate(b) /\ Invoke(b, "orWhereExists", args)

update_orWhereNotExists(b, args) == IsUpdate(b) /\ Invoke(b, "orWhereNotExists", args)

\* toOperationNode hands out the descriptor object the builder holds.
Extract(b, node) ==
    /\ "toOperationNode" \in Methods(builders[b].kind)
    /\ [from |-> b, node |-> node] \in extracted \/ CallsMade < MaxCalls
    /\ extracted' = extracted \cup {[from |-> b, node |-> node]}
    /\ UNCHANGED <<builders, thrown>>

doNothing_toOperationNode(b) ==
    /\ IsDoNothing(b)
    /\ Extract(b, OnConflictDoNothingBuilder_toOperationNode(builders[b]))

\* toOperationNode as it would be if OnConflictBuilder declared it as well.
update_toOperationNode_any_class(b) ==
    LET taken == [from |-> b, node |-> builders[b].props.onConflictNode]
    IN /\ ~IsDoNothing(b)
       /\ taken \in extracted \/ CallsMade < MaxCalls
       /\ extracted' = extracted \cup {taken}
       /\ UNCHANGED <<builders, thrown>>

update_toOperationNode(b) ==
    /\ IsUpdate(b)
    /\ Extract(b, OnConflictUpdateBuilder_toOperationNode(builders[b]))

\* A call of a method the receiver's class does not declare: a TypeError,
\* and nothing is built.
NoSuchMethod(b, method) ==
    /\ method \notin Methods(builders[b].kind)
    /\ Thrown(b, method, << >>, TypeError) \in thrown \/ CallsMade < MaxCalls
    /\ thrown' = thrown \cup {Thrown(b, method, << >>, TypeError)}
    /\ UNCHANGED <<builders, extracted>>

Init ==
    /\ \E parseContext \in ParseContexts :
         builders = (<< >> :> OnConflictBuilder(
                                [onConflictNode |-> OnConflictNode_create,
                                 parseContext |-> parseContext,
                                 frozen |-> FALSE],
                                Database, {TargetTable}))
    /\ extracted = {}
    /\ thrown = {}

Next ==
    \E b \in DOMAIN builders :
        \/ \E name \in ColumnArgs : column(b, name)
        \/ \E names \in ColumnsArgs : columns(b, names)
        \/ \E name \in ConstraintArgs : constraint(b, name)
        \/ \E expr \in ExpressionArgs : expression(b, expr)
        \/ \E args \in WhereArgs : where(b, args)
        \/ \E args \in RefArgs : whereRef(b, args)
        \/ \E args \in WhereArgs : orWhere(b, args)
        \/ \E args \in RefArgs : orWhereRef(b, args)
        \/ \E args \in ExistsArgs : whereExists(b, args)
        \/ \E args \in ExistsArgs : whereNotExists(b, args)
        \/ \E args \in ExistsArgs : orWhereExists(b, args)
        \/ \E args \in ExistsArgs : orWhereNotExists(b, args)
        \/ doNothing(b)
        \/ \E updates \in UpdateArgs : doUpdateSet(b, updates)
        \/ \E args \in WhereArgs : update_where(b, args)
        \/ \E args \in RefArgs : update_whereRef(b, args)
        \/ \E args \in WhereArgs : update_orWhere(b, args)
        \/ \E args \in RefArgs : update_orWhereRef(b, args)
        \/ \E args \in ExistsArgs : update_whereExists(b, args)
        \/ \E args \in ExistsArgs : update_whereNotExists(b, args)
        \/ \E args \in ExistsArgs : update_orWhereExists(b, args)
        \/ \E args \in ExistsArgs : update_orWhereNotExists(b, args)
        \/ doNothing_toOperationNode(b)
        \/ update_toOperationNode(b)
        \/ \E method \in AllMethods : NoSuchMethod(b, method)

Spec == Init /\ [][Next]_vars

(***************************************************************************)
(* Vocabulary of the properties.                                           *)
(***************************************************************************)
Paths == DOMAIN builders

Parent(p) == SubSeq(p, 1, Len(p) - 1)

LastCall(p) == p[Len(p)]

Node(p) == builders[p].props.onConflictNode

Context(p) == builders[p].props.parseContext

\* The builders derived by at least one call.
Derived == {p \in Paths : Len(p) > 0}

\* The names the column / columns calls of a lineage supplied, in call order.
RECURSIVE SuppliedColumns(_)
SuppliedColumns(p) ==
    IF Len(p) = 0
    THEN << >>
    ELSE SuppliedColumns(Parent(p)) \o
           (IF LastCall(p).m \in {"column", "columns"} THEN LastCall(p).a ELSE << >>)

ColumnNames(node) == [i \in 1..Len(node.columns.items) |-> node.columns.items[i].column]

\* The fragment a predicate call supplies.
Fragment(parseContext, call) ==
    CASE call.m \in {"where", "orWhere"} ->
           [kind |-> "FilterNode", ctx |-> parseContext, args |-> call.a]
      [] call.m \in {"whereRef", "orWhereRef"} ->
           [kind |-> "ReferenceFilterNode", ctx |-> parseContext, args |-> call.a]
      [] call.m \in {"whereExists", "orWhereExists"} ->
           [kind |-> "ExistsNode", ctx |-> parseContext, args |-> call.a]
      [] call.m \in {"whereNotExists", "orWhereNotExists"} ->
           [kind |-> "NotExistsNode", ctx |-> parseContext, args |-> call.a]

Connective(call) == IF call.m \in OrMethods THEN "Or" ELSE "And"

\* The position of the doUpdateSet call in a lineage, 0 when there is none.
UpdateAt(p) ==
    IF \E i \in 1..Len(p) : p[i].m = "doUpdateSet"
    THEN CHOOSE i \in 1..Len(p) : p[i].m = "doUpdateSet"
    ELSE 0

\* The left fold of the predicate calls at positions from..to of a lineage.
RECURSIVE LeftFold(_, _, _, _)
LeftFold(parseContext, p, from, to) ==
    IF to < from
    THEN Absent
    ELSE LET before == LeftFold(parseContext, p, from, to - 1)
         IN IF p[to].m \notin PredicateMethods
            THEN before
            ELSE IF before = Absent
                 THEN Fragment(parseContext, p[to])
                 ELSE [kind |-> Connective(p[to]),
                       left |-> before,
                       right |-> Fragment(parseContext, p[to])]

IndexCalls(p) == IF UpdateAt(p) = 0 THEN Len(p) ELSE UpdateAt(p) - 1

\* The action a descriptor holds.
ActionKind(node) ==
    CASE node.doNothing /\ node.updates = Absent -> "Ignore"
      [] ~node.doNothing /\ node.updates # Absent -> "Update"
      [] ~node.doNothing /\ node.updates = Absent -> "Undecided"
      [] OTHER -> "Both"

(***************************************************************************)
(* C1: no builder call mutates its receiver.  In every step each builder   *)
(* held keeps its class, props and descriptor, the props of every builder  *)
(* are frozen, and every descriptor taken out with toOperationNode still   *)
(* has the value it had when it was taken.                                 *)
(***************************************************************************)
C1_NoCallMutatesReceiver ==
    [][/\ \A p \in Paths : p \in DOMAIN builders' /\ builders'[p] = builders[p]
       /\ \A p \in DOMAIN builders' : builders'[p].props.frozen
       /\ \A e \in extracted' :
            builders'[e.from].props.onConflictNode = e.node]_vars

\* A descriptor was taken from a builder that also was the receiver of a
\* later-visible call whose result holds a different descriptor.
C1_Witness ==
    \E e \in extracted : \E p \in Derived :
        /\ Parent(p) = e.from
        /\ Node(p) # e.node
        /\ Node(e.from) = e.node

(***************************************************************************)
(* C2: the column list of every builder is the concatenation, in call      *)
(* order, of the names its column / columns calls supplied: nothing is     *)
(* dropped, deduplicated or reordered; the list exists once such a call    *)
(* was made.                                                               *)
(***************************************************************************)
C2_ColumnsAreConcatenation ==
    \A p \in Paths :
        /\ ColumnNames(Node(p)) = SuppliedColumns(p)
        /\ \A i \in 1..Len(Node(p).columns.items) :
             Node(p).columns.items[i].kind = "ColumnNode"
        /\ Node(p).columns.present <=>
             \E i \in 1..Len(p) : p[i].m \in {"column", "columns"}

\* column("email").columns(["id", "email"]): a name supplied twice is held twice.
C2_Witness ==
    \E p \in Paths :
        /\ Len(p) = 2 /\ p[1].m = "column" /\ p[2].m = "columns"
        /\ ColumnNames(Node(p)) = <<"email", "id", "email">>

(***************************************************************************)
(* C3: predicates accumulate strictly left to right.  The index predicate  *)
(* of every builder is the left fold of the fragments of its predicate     *)
(* calls made before doUpdateSet, the update predicate the left fold of    *)
(* those made after it; where(p1).orWhere(p2).where(p3) holds              *)
(* (p1 OR p2) AND p3.                                                      *)
(***************************************************************************)
C3_PredicatesFoldLeft ==
    \A p \in Paths :
        /\ Node(p).indexWhere = LeftFold(Context(p), p, 1, IndexCalls(p))
        /\ UpdateAt(p) > 0 =>
             Node(p).updateWhere = LeftFold(Context(p), p, UpdateAt(p) + 1, Len(p))
        /\ (Len(p) = 3 /\ p[1].m = "where" /\ p[2].m = "orWhere" /\ p[3].m = "where") =>
             Node(p).indexWhere =
               [kind |-> "And",
                left |-> [kind |-> "Or",
                          left |-> Fragment(Context(p), p[1]),
                          right |-> Fragment(Context(p), p[2])],
                right |-> Fragment(Context(p), p[3])]

\* where(p1).orWhere(p2).where(p3) with p2 different from p1 and p3.
C3_Witness ==
    \E p \in Paths :
        /\ Len(p) = 3 /\ p[1].m = "where" /\ p[2].m = "orWhere" /\ p[3].m = "where"
        /\ p[2].a # p[1].a /\ p[2].a # p[3].a
        /\ Node(p).indexWhere.kind = "And"
        /\ Node(p).indexWhere.left.kind = "Or"
        /\ Node(p).indexWhere.right.kind = "FilterNode"

(***************************************************************************)
(* C4: first-call identity.  A predicate call on a builder whose predicate *)
(* (the index predicate of the target builder, the update predicate of the *)
(* update builder) is absent stores the supplied fragment itself, with no  *)
(* conjunction or disjunction around it.                                   *)
(***************************************************************************)
C4_FirstCallIdentity ==
    \A p \in Derived :
        LastCall(p).m \in PredicateMethods =>
            LET receiver == builders[Parent(p)]
                fragment == Fragment(Context(Parent(p)), LastCall(p))
            IN /\ fragment.kind \notin {"And", "Or"}
               /\ (receiver.kind = "OnConflictBuilder"
                     /\ receiver.props.onConflictNode.indexWhere = Absent)
                    => Node(p).indexWhere = fragment
               /\ (receiver.kind = "OnConflictUpdateBuilder"
                     /\ receiver.props.onConflictNode.updateWhere = Absent)
                    => Node(p).updateWhere = fragment

\* A first where on the target builder and a first orWhere on an update builder.
C4_Witness ==
    \E p \in Derived : \E q \in Derived :
        /\ Len(p) = 1 /\ p[1].m = "where"
        /\ Node(p).indexWhere = Fragment(Context(p), p[1])
        /\ Len(q) = 2 /\ q[1].m = "doUpdateSet" /\ q[2].m = "orWhere"
        /\ Node(q).updateWhere = Fragment(Context(q), q[2])

(***************************************************************************)
(* C5: terminal separation.  No builder is ever derived from the result of *)
(* doNothing, whose class declares none of the chaining methods; after     *)
(* doUpdateSet only predicate calls derive builders, the class declares    *)
(* the eight predicate methods and no target or terminal method, and the   *)
(* target and the index predicate stay those doUpdateSet returned.         *)
(***************************************************************************)
C5_TerminalSeparation ==
    \A p \in Derived :
        /\ \A i \in 1..Len(p) :
             /\ p[i].m = "doNothing" => i = Len(p)
             /\ p[i].m = "doUpdateSet" =>
                  \A j \in (i + 1)..Len(p) : p[j].m \in PredicateMethods
        /\ LastCall(p).m = "doNothing" =>
             /\ Methods(builders[p].kind) \cap ChainMethods = {}
             /\ \A m \in ChainMethods : ENABLED NoSuchMethod(p, m) \/ CallsMade >= MaxCalls
        /\ UpdateAt(p) > 0 =>
             LET first == Node(SubSeq(p, 1, UpdateAt(p)))
             IN /\ Methods(builders[p].kind) \cap ChainMethods = PredicateMethods
                /\ Node(p).columns = first.columns
                /\ Node(p).constraint = first.constraint
                /\ Node(p).indexExpression = first.indexExpression
                /\ Node(p).indexWhere = first.indexWhere

\* A chaining call on the result of doNothing ended in a TypeError.
C5_Witness ==
    \E t \in thrown :
        /\ Len(t.on) > 0
        /\ LastCall(t.on).m = "doNothing"
        /\ t.m \in ChainMethods

(***************************************************************************)
(* C6: once decided, the action stays what it is.  If the descriptor of a  *)
(* receiver is Ignore or Update, the descriptor of every builder derived   *)
(* from it has the same action kind, the same ignore flag and the same     *)
(* value mapping.                                                          *)
(***************************************************************************)
C6_ActionNeverUndecidedAgain ==
    \A p \in Derived :
        LET before == Node(Parent(p))
            after == Node(p)
        IN ActionKind(before) # "Undecided" =>
             /\ ActionKind(after) = ActionKind(before)
             /\ after.doNothing = before.doNothing
             /\ after.updates = before.updates

\* doUpdateSet(m).where(p).orWhere(q): two refinements of a decided action.
C6_Witness ==
    \E p \in Derived :
        /\ Len(p) = 3 /\ p[1].m = "doUpdateSet"
        /\ ActionKind(Node(Parent(Parent(p)))) = "Update"
        /\ Node(Parent(p)).updateWhere # Absent
        /\ Node(p).updateWhere # Node(Parent(p)).updateWhere
        /\ ActionKind(Node(p)) = "Update"

(***************************************************************************)
(* C7: each target-defining call writes its own slot only.  constraint     *)
(* sets the constraint, expression sets the index expression, column and   *)
(* columns append to the column list; every other field of the descriptor  *)
(* is the receiver's, so one descriptor can hold several target kinds.     *)
(***************************************************************************)
C7_TargetCallsWriteOwnSlot ==
    \A p \in Derived :
        LET call == LastCall(p)
            before == Node(Parent(p))
            after == Node(p)
        IN /\ call.m = "constraint" =>
                after = [before EXCEPT
                           !.constraint = [kind |-> "IdentifierNode", name |-> call.a[1]]]
           /\ call.m = "expression" =>
                after = [before EXCEPT
                           !.indexExpression = [kind |-> "RawNode", sql |-> call.a[1]]]
           /\ call.m \in {"column", "columns"} =>
                after = [before EXCEPT
                           !.columns =
                              [present |-> TRUE,
                               items |-> before.columns.items \o
                                 [i \in 1..Len(call.a) |->
                                    [kind |-> "ColumnNode", column |-> call.a[i]]]]]

\* column(c).constraint(k).column(d): the constraint call kept the list, the
\* second column call appended to it and kept the constraint.
C7_Witness ==
    \E p \in Derived :
        /\ Len(p) = 3 /\ p[1].m = "column" /\ p[2].m = "constraint" /\ p[3].m = "column"
        /\ ColumnNames(Node(p)) = <<p[1].a[1], p[3].a[1]>>
        /\ Node(p).constraint = [kind |-> "IdentifierNode", name |-> p[2].a[1]]
        /\ ColumnNames(Node(Parent(p))) = <<p[1].a[1]>>

(***************************************************************************)
(* C8 as stated: the mapping of doUpdateSet is resolved against the        *)
(* extended table universe, the one of the update builder it returns (the  *)
(* receiver's tables and the proposed-row alias).                          *)
(***************************************************************************)
C8_MappingOverExtendedUniverse ==
    \A p \in Derived :
        LastCall(p).m = "doUpdateSet" =>
            ArgumentTables(builders[Parent(p)], "doUpdateSet") = builders[p].TB

(***************************************************************************)
(* C8, amended: doUpdateSet takes a mapping that addresses only the        *)
(* receiver's own tables and returns an update builder over the extended   *)
(* tables whose descriptor is the receiver's with the parsed mapping as    *)
(* updates: action Update, update predicate absent, target and index       *)
(* predicate those of the receiver.                                        *)
(***************************************************************************)
C8_DoUpdateSet ==
    /\ \A p \in Paths : \A updates \in UpdateArgs :
         IsTarget(p) =>
           (Accepts(builders[p], "doUpdateSet", updates)
              <=> TablesOf(updates) \subseteq builders[p].TB)
    /\ \A p \in Derived :
         LastCall(p).m = "doUpdateSet" =>
           LET receiver == builders[Parent(p)]
               before == receiver.props.onConflictNode
               after == Node(p)
           IN /\ builders[p].kind = "OnConflictUpdateBuilder"
              /\ TablesOf(LastCall(p).a) \subseteq receiver.TB
              /\ builders[p].TB = receiver.TB \cup {ExcludedAlias}
              /\ after = [before EXCEPT
                            !.updates = [kind |-> "ColumnUpdates",
                                         ctx |-> receiver.props.parseContext,
                                         args |-> LastCall(p).a]]
              /\ ActionKind(after) = "Update"
              /\ after.updateWhere = Absent

\* column(c).where(w).doUpdateSet(m): a receiver with a target and an index predicate.
C8_Witness ==
    \E p \in Derived :
        /\ Len(p) = 3 /\ p[1].m = "column" /\ p[2].m = "where" /\ p[3].m = "doUpdateSet"
        /\ Node(p).updates.args = <<"name", "n">>
        /\ Node(p).indexWhere # Absent
        /\ Node(p).columns.present
        /\ builders[p].TB = {TargetTable, ExcludedAlias}

\* The chain of the example.
C9_Example ==
    <<Call("column", <<"email">>),
      Call("where", <<"email", "=", "a@x.com">>),
      Call("doNothing", << >>)>>

(***************************************************************************)
(* C9: doNothing returns a do-nothing builder whose descriptor is the      *)
(* receiver's with the ignore flag set, and toOperationNode hands out that *)
(* descriptor; column("email").where(email = 'a@x.com').doNothing() holds  *)
(* the column list [email], that index predicate and action Ignore.        *)
(***************************************************************************)
C9_DoNothing ==
    /\ \A p \in Derived :
         LastCall(p).m = "doNothing" =>
           /\ builders[p].kind = "OnConflictDoNothingBuilder"
           /\ Node(p) = [Node(Parent(p)) EXCEPT !.doNothing = TRUE]
           /\ ActionKind(Node(p)) = "Ignore"
    /\ \A e \in extracted :
         IsDoNothing(e.from) => e.node = [Node(Parent(e.from)) EXCEPT !.doNothing = TRUE]
    /\ C9_Example \in Paths =>
         /\ Node(C9_Example).columns =
              [present |-> TRUE, items |-> <<[kind |-> "ColumnNode", column |-> "email"]>>]
         /\ Node(C9_Example).indexWhere =
              [kind |-> "FilterNode", ctx |-> Context(<< >>),
               args |-> <<"email", "=", "a@x.com">>]
         /\ ActionKind(Node(C9_Example)) = "Ignore"

C9_Witness ==
    /\ C9_Example \in Paths
    /\ ColumnNames(Node(C9_Example)) = <<"email">>
    /\ Node(C9_Example).indexWhere.args = <<"email", "=", "a@x.com">>
    /\ Node(C9_Example).doNothing

\* The chain of the example.
C10_Example ==
    <<Call("constraint", <<"people_pkey">>),
      Call("doUpdateSet", <<"name", "n">>),
      Call("whereRef", <<"people.active", "=", "excluded.active">>)>>

(***************************************************************************)
(* C10: predicate routing.  A predicate call on the update builder changes *)
(* the update predicate and nothing else of the descriptor; a predicate    *)
(* call on the target builder changes the index predicate and nothing      *)
(* else.  constraint("people_pkey").doUpdateSet({name: "n"})               *)
(* .whereRef(people.active = excluded.active) holds that constraint, no    *)
(* index predicate and that update predicate.                              *)
(***************************************************************************)
C10_PredicateRouting ==
    /\ \A p \in Derived :
         LastCall(p).m \in PredicateMethods =>
           LET receiver == builders[Parent(p)]
               before == receiver.props.onConflictNode
               after == Node(p)
           IN /\ builders[p].kind = receiver.kind
              /\ receiver.kind = "OnConflictUpdateBuilder" =>
                   /\ after = [before EXCEPT !.updateWhere = after.updateWhere]
                   /\ after.updateWhere # before.updateWhere
              /\ receiver.kind = "OnConflictBuilder" =>
                   /\ after = [before EXCEPT !.indexWhere = after.indexWhere]
                   /\ after.indexWhere # before.indexWhere
    /\ C10_Example \in Paths =>
         /\ Node(C10_Example).constraint = [kind |-> "IdentifierNode", name |-> "people_pkey"]
         /\ Node(C10_Example).indexWhere = Absent
         /\ Node(C10_Example).updates.args = <<"name", "n">>
         /\ Node(C10_Example).updateWhere =
              [kind |-> "ReferenceFilterNode", ctx |-> Context(<< >>),
               args |-> <<"people.active", "=", "excluded.active">>]

C10_Witness ==
    /\ C10_Example \in Paths
    /\ Node(C10_Example).constraint.name = "people_pkey"
    /\ Node(C10_Example).updateWhere.args = <<"people.active", "=", "excluded.active">>
    /\ Node(C10_Example).indexWhere = Absent

\* q is a lineage that p continues.
IsPrefix(q, p) == Len(q) <= Len(p) /\ SubSeq(p, 1, Len(q)) = q

\* The builder a call sequence reaches when it alone is run on this.
RECURSIVE RunAlone(_, _)
RunAlone(this, calls) ==
    IF Len(calls) = 0
    THEN this
    ELSE RunAlone(Impl(this, calls[1].m, calls[1].a), Tail(calls))

(***************************************************************************)
(* C11: divergent continuations of one shared builder do not interfere.    *)
(* Whatever other calls were made on the builders held, and in whatever    *)
(* order, every builder held is the one its call sequence reaches when run *)
(* alone on any builder b it continues, and b still is what it was.        *)
(***************************************************************************)
C11_ContinuationsDoNotInterfere ==
    \A p \in Paths : \A b \in Paths :
        IsPrefix(b, p) =>
            builders[p] = RunAlone(builders[b], SubSeq(p, Len(b) + 1, Len(p)))

\* Two continuations of one shared builder b, one of two calls and one of
\* one call that starts differently, reaching different descriptors.
C11_Witness ==
    \E b \in Paths : \E p \in Paths : \E q \in Paths :
        /\ IsPrefix(b, p) /\ IsPrefix(b, q)
        /\ Len(p) = Len(b) + 2 /\ Len(q) = Len(b) + 1
        /\ p[Len(b) + 1] # q[Len(b) + 1]
        /\ Node(p) # Node(q)
        /\ Node(p) # Node(b) /\ Node(q) # Node(b)

\* The terminal calls of a lineage.
TerminalCalls(p) == {i \in 1..Len(p) : p[i].m \in TerminalMethods}

(***************************************************************************)
(* C12: a finished descriptor comes only from a terminal builder.  Every   *)
(* descriptor taken out with toOperationNode was taken from a do-nothing   *)
(* or an update builder whose lineage holds exactly one terminal call, and *)
(* its action is Ignore or Update, never Undecided; OnConflictBuilder does *)
(* not declare toOperationNode, and calling it there is a TypeError.       *)
(***************************************************************************)
C12_ExtractionOnlyFromTerminal ==
    /\ \A e \in extracted :
         /\ builders[e.from].kind \in
              {"OnConflictDoNothingBuilder", "OnConflictUpdateBuilder"}
         /\ Cardinality(TerminalCalls(e.from)) = 1
         /\ ActionKind(e.node) \in {"Ignore", "Update"}
         /\ ActionKind(e.node) = "Ignore" <=> IsDoNothing(e.from)
    /\ \A p \in Paths :
         IF IsTarget(p)
         THEN /\ "toOperationNode" \notin Methods(builders[p].kind)
              /\ TerminalCalls(p) = {}
              /\ ActionKind(Node(p)) = "Undecided"
              /\ ~ENABLED update_toOperationNode(p)
              /\ ~ENABLED doNothing_toOperationNode(p)
              /\ ENABLED NoSuchMethod(p, "toOperationNode") \/ CallsMade >= MaxCalls
         ELSE /\ "toOperationNode" \in Methods(builders[p].kind)
              /\ Cardinality(TerminalCalls(p)) = 1

\* A descriptor was taken from a terminal builder, and toOperationNode called
\* on a target builder ended in a TypeError.
C12_Witness ==
    /\ \E e \in extracted :
         /\ Cardinality(TerminalCalls(e.from)) = 1
         /\ ActionKind(e.node) \in {"Ignore", "Update"}
    /\ \E t \in thrown : t.m = "toOperationNode" /\ IsTarget(t.on)

\* The calls that ended in an error of a parser.
ParserFailures == {t \in thrown : t.error # TypeError}

(***************************************************************************)
(* C13: an error of the predicate parser or of the reference resolver      *)
(* reaches the caller as it was raised and leaves no partial state.  In    *)
(* the step of a failing call the error the caller gets is the parser's    *)
(* own, no builder is added, every builder held (the receiver included)    *)
(* and every extracted descriptor is what it was; and no builder is ever   *)
(* the result of a call whose arguments the parser rejects.                *)
(***************************************************************************)
C13_ParserErrorsPropagate ==
    [][/\ \A t \in thrown' \ thrown :
            /\ builders' = builders
            /\ extracted' = extracted
            /\ t.on \in DOMAIN builders
            /\ t.error # TypeError =>
                 /\ t.error = Parsed(builders[t.on], t.m, t.a)
                 /\ IsError(t.error)
                 /\ Append(t.on, Call(t.m, t.a)) \notin DOMAIN builders'
       /\ \A p \in DOMAIN builders' \ DOMAIN builders :
            /\ ~IsError(Parsed(builders[Parent(p)], LastCall(p).m, LastCall(p).a))
            /\ ~IsMalformed(LastCall(p).a)
            /\ thrown' = thrown
            /\ ~IsError(builders'[p].props.onConflictNode.indexWhere)
            /\ ~IsError(builders'[p].props.onConflictNode.updateWhere)
            /\ ~IsError(builders'[p].props.onConflictNode.updates)]_vars

\* where and doUpdateSet both failed in the parser on a builder that holds an
\* index predicate; neither left a builder behind.
C13_Witness ==
    \E t \in ParserFailures : \E u \in ParserFailures :
        /\ t.on = u.on /\ Len(t.on) = 1
        /\ t.m = "where" /\ t.error.by = "parseWhereFilter"
        /\ u.m = "doUpdateSet" /\ u.error.by = "parseUpdateObject"
        /\ Node(t.on).indexWhere # Absent
        /\ Append(t.on, Call(t.m, t.a)) \notin Paths
        /\ Append(u.on, Call(u.m, u.a)) \notin Paths

\* The argument lists that address the proposed row.
ExcludedArgs ==
    {args \in WhereArgs \cup RefArgs \cup ExistsArgs \cup UpdateArgs :
       ExcludedAlias \in TablesOf(args)}

Predicate(builder) ==
    IF builder.kind = "OnConflictUpdateBuilder"
    THEN builder.props.onConflictNode.updateWhere
    ELSE builder.props.onConflictNode.indexWhere

(***************************************************************************)
(* C15: connective and fragment of the eight predicate methods, in the     *)
(* target builder and in the update builder alike.  where, whereRef,       *)
(* whereExists and whereNotExists AND-join and orWhere, orWhereRef,        *)
(* orWhereExists and orWhereNotExists OR-join their fragment onto the      *)
(* receiver's predicate, the receiver's predicate on the left; where and   *)
(* orWhere join a value comparison, whereRef and orWhereRef a reference    *)
(* comparison, whereExists and orWhereExists an existence check,           *)
(* whereNotExists and orWhereNotExists a non-existence check, each over    *)
(* the arguments of the call.                                              *)
(***************************************************************************)
C15_ConnectiveAndFragment ==
    \A p \in Derived :
        LET m == LastCall(p).m
            before == Predicate(builders[Parent(p)])
            after == Predicate(builders[p])
            fragment == IF before = Absent THEN after ELSE after.right
        IN m \in PredicateMethods =>
             /\ before # Absent =>
                  /\ after.left = before
                  /\ m \in {"where", "whereRef", "whereExists", "whereNotExists"}
                       => after.kind = "And"
                  /\ m \in {"orWhere", "orWhereRef", "orWhereExists", "orWhereNotExists"}
                       => after.kind = "Or"
             /\ fragment.args = LastCall(p).a
             /\ fragment.ctx = Context(Parent(p))
             /\ m \in {"where", "orWhere"} => fragment.kind = "FilterNode"
             /\ m \in {"whereRef", "orWhereRef"} => fragment.kind = "ReferenceFilterNode"
             /\ m \in {"whereExists", "orWhereExists"} => fragment.kind = "ExistsNode"
             /\ m \in {"whereNotExists", "orWhereNotExists"} =>
                  fragment.kind = "NotExistsNode"

\* doUpdateSet(m).whereNotExists(q).orWhereRef(l, op, r): a reference comparison
\* OR-joined onto a non-existence check in the update builder.
C15_Witness ==
    \E p \in Derived :
        /\ Len(p) = 3
        /\ p[1].m = "doUpdateSet" /\ p[2].m = "whereNotExists" /\ p[3].m = "orWhereRef"
        /\ Node(p).updateWhere.kind = "Or"
        /\ Node(p).updateWhere.left.kind = "NotExistsNode"
        /\ Node(p).updateWhere.right.kind = "ReferenceFilterNode"
        /\ Node(p).indexWhere = Absent

\* Every descriptor there is: those the builders hold and those taken out.
Descriptors == {Node(p) : p \in Paths} \cup {e.node : e \in extracted}

(***************************************************************************)
(* C16: action exclusivity.  In every descriptor a builder holds or        *)
(* toOperationNode handed out, the ignore flag and the value mapping are   *)
(* never both set, and an update predicate is present only together with   *)
(* a value mapping and no ignore flag (action Update).                     *)
(***************************************************************************)
C16_ActionExclusivity ==
    \A node \in Descriptors :
        /\ ~(node.doNothing /\ node.updates # Absent)
        /\ ActionKind(node) \in {"Undecided", "Ignore", "Update"}
        /\ node.updateWhere # Absent => ActionKind(node) = "Update"

\* An Update descriptor with an update predicate, next to an Ignore descriptor
\* derived from the same target builder.
C16_Witness ==
    \E p \in Derived : \E q \in Derived :
        /\ ActionKind(Node(p)) = "Update"
        /\ Node(p).updateWhere # Absent
        /\ ~Node(p).doNothing
        /\ ActionKind(Node(q)) = "Ignore"
        /\ Node(q).updates = Absent /\ Node(q).updateWhere = Absent
        /\ Parent(q) = Parent(Parent(p))

\* The parse contexts of the fragments a predicate is made of.
RECURSIVE FragmentContexts(_)
FragmentContexts(predicate) ==
    CASE predicate = Absent -> {}
      [] predicate.kind \in {"And", "Or"} ->
           FragmentContexts(predicate.left) \cup FragmentContexts(predicate.right)
      [] OTHER -> {predicate.ctx}

\* The parse contexts everything parsed in a descriptor was parsed with.
ContextsUsed(node) ==
    FragmentContexts(node.indexWhere) \cup FragmentContexts(node.updateWhere)
      \cup FragmentContexts(node.updates)

(***************************************************************************)
(* C17: the parse context is carried unchanged.  Every call, doNothing and *)
(* doUpdateSet included, returns a builder that holds the parse context of *)
(* its receiver, so every builder of a lineage holds the context the       *)
(* lineage started with and every fragment and value mapping in its        *)
(* descriptor was parsed with that context.                                *)
(***************************************************************************)
C17_ParseContextCarried ==
    /\ \A p \in Derived :
         /\ Context(p) = Context(Parent(p))
         /\ Context(p) = Context(<< >>)
         /\ ContextsUsed(Node(p)) \subseteq {Context(<< >>)}
    /\ \A e \in extracted : ContextsUsed(e.node) \subseteq {Context(<< >>)}

\* where(a).doUpdateSet(m).where(b) on a lineage started with the second
\* context: both predicates and the mapping were parsed with it.
C17_Witness ==
    \E p \in Derived :
        /\ Len(p) = 3 /\ p[1].m = "where" /\ p[2].m = "doUpdateSet" /\ p[3].m = "where"
        /\ Context(<< >>) = "ctx2"
        /\ Node(p).indexWhere.ctx = "ctx2"
        /\ Node(p).updates.ctx = "ctx2"
        /\ Node(p).updateWhere.ctx = "ctx2"
        /\ Context(p) = "ctx2"

====
